---- MODULE Spec2Model ----
(***************************************************************************)
(* Model of the task execution service of cortex-claude-code-agent-sdk:    *)
(* handle_execute (main.py) in front of execute_task (executor.py), with   *)
(* the process-wide state they share: the semaphore, the filesystem under  *)
(* the workspace base and the process working directory.                   *)
(*                                                                         *)
(* One action is one run of a coroutine between two suspension points.     *)
(* The suspension points are: waiting for the semaphore, the engine's      *)
(* message stream, each upload's round trip, and the hand-over between     *)
(* execute_task finishing and handle_execute answering.                    *)
(*                                                                         *)
(* Environment assumptions: no symbolic links under the paths used, the    *)
(* clock read by datetime.now() does not run backwards, CancelledError is  *)
(* not an Exception (Python >= 3.8, required by the SDK).                  *)
(***************************************************************************)
EXTENDS Integers, Sequences, FiniteSets, TLC

\* ---------------------------------------------------------------- bounds
NumRequests == 4
MaxClock == 1
MaxEngineMessages == 2
MaxWrites == 2
MaxFaults == 1
MaxRmtreeFailures == 1

\* ------------------------------------------------------------- constants
MAX_CONCURRENT_TASKS == 3
TASK_TIMEOUT_SECONDS == 300

WORKSPACE_BASE == <<"tmp", "claude-workspaces">>

\* the directory the process was started in
InitialCwd == <<"app">>

Requests == 1..NumRequests

\* Python's None / an unbound local, and a present value
None == <<>>
Some(x) == <<x>>

\* ----------------------------------------------------------------- paths
\* a path is the sequence of its components below "/"

IsPrefix(p, q) == Len(p) <= Len(q) /\ SubSeq(q, 1, Len(p)) = p

IsStrictDescendant(q, base) == IsPrefix(base, q) /\ Len(q) > Len(base)

\* the names of the model that start with a dot
DotNames == {".", "..", ".cache", ".out"}

StartsWithDot(part) == part \in DotNames

\* Path(base) / task_id: an absolute right operand replaces the left one;
\* "." components are dropped when the path is parsed
JoinPath(base, id) ==
    LET parts == SelectSeq(id.parts, LAMBDA c : c # ".")
    IN  IF id.abs THEN parts ELSE base \o parts

\* Path.resolve() without symbolic links: ".." removes the component before
\* it, and stays at the root
RECURSIVE ResolveFrom(_, _)
ResolveFrom(acc, rest) ==
    IF rest = <<>> THEN acc
    ELSE IF Head(rest) = ".."
         THEN ResolveFrom(IF acc = <<>> THEN acc ELSE SubSeq(acc, 1, Len(acc) - 1),
                          Tail(rest))
         ELSE ResolveFrom(Append(acc, Head(rest)), Tail(rest))

Resolve(p) == ResolveFrom(<<>>, p)

\* Path.mkdir(parents=True, exist_ok=True)
Mkdir(d, p) == d \cup {SubSeq(p, 1, k) : k \in 0..Len(p)}

\* shutil.rmtree(p) on the directories and on the files
Rmtree(s, p) == {q \in s : ~IsPrefix(p, q)}

\* --------------------------------------------------------- task identifiers
\* what a client can put in "taskId": nothing (or a falsy value), a string,
\* or a truthy JSON value that is not a string
Absent == [kind |-> "absent", abs |-> FALSE, parts |-> <<>>]
NonString == [kind |-> "nonstring", abs |-> FALSE, parts |-> <<>>]
StrId(abs, parts) == [kind |-> "str", abs |-> abs, parts |-> parts]

ClientTaskIds ==
    {Absent, NonString, StrId(FALSE, <<"a">>), StrId(FALSE, <<"b">>),
     StrId(FALSE, <<"c">>), StrId(FALSE, <<"..">>), StrId(FALSE, <<".out">>)}

\* a request body: well-formed, not JSON, JSON that is not an object (a list,
\* a string, a number, null), or an object without one of the two fields
RequestKinds == {"ok", "badjson", "nonobject", "notask", "nocontext"}

\* f"cc-{int(datetime.now().timestamp() * 1000)}"
GeneratedTaskId(ms) == StrId(FALSE, <<"cc-" \o ToString(ms)>>)

\* task_id or f"cc-..."
TaskIdOf(given, ms) == IF given.kind = "absent" THEN GeneratedTaskId(ms) ELSE given

\* (Path(WORKSPACE_BASE) / task_id).resolve()
WorkspaceOf(id) == Resolve(JoinPath(WORKSPACE_BASE, id))

\* ------------------------------------------------------------- semaphore
\* (mutant) acquire never blocks
SemCanAcquireAlways(s) == TRUE

\* asyncio.Semaphore: acquire passes only while the value is positive
SemCanAcquire(s) == s > 0

SemAcquire(s) == s - 1

\* (mutant) the slot is kept
SemReleaseNever(s) == s

\* leaving "async with _semaphore", on every path out of the block
SemRelease(s) == s + 1

\* -------------------------------------------------------------- envelopes
\* the dict execute_task returns on success
SuccessEnvelope(text, arts, dur) ==
    [success |-> TRUE, result |-> Some(text), artifacts |-> arts,
     duration_ms |-> dur]

\* the dict of both except branches of execute_task
FailureEnvelope(msg, dur) ==
    [success |-> FALSE, result |-> None, error |-> msg, duration_ms |-> dur]

\* int((datetime.now() - start_time).total_seconds() * 1000)
DurationMs(start, end) == end - start

TimedOutError == "Task timed out"

\* f"Task timed out after {TASK_TIMEOUT_SECONDS}s"
DeadlineError == "Task timed out after " \o ToString(TASK_TIMEOUT_SECONDS) \o "s"

\* str(e) of the exceptions of the model
MkdirError == "[Errno 13] Permission denied"
GetcwdError == "[Errno 2] No such file or directory"
EngineError == "engine failed"
EnumerationError == "[Errno 13] Permission denied: scandir"
JoinTypeError == "unsupported operand type(s) for /"

\* what handle_execute sends
Response(status, body) == [status |-> status, body |-> body]

BadRequest(msg) == Response(400, [success |-> FALSE, error |-> msg])

\* data.get raises AttributeError outside every try of handle_execute: the
\* web framework answers for the handler, with a plain text body
UnhandledError == Response(500, [text |-> "500 Internal Server Error"])

\* how execute_task ended, as wait_for hands it to handle_execute
Returned(env) == [kind |-> "return", value |-> env]
Cancelled == [kind |-> "cancel", value |-> [error |-> "CancelledError"]]
Raised(msg) == [kind |-> "raise", value |-> [error |-> msg]]
NotFinished == [kind |-> "none", value |-> [error |-> ""]]

\* (mutant) asyncio.TimeoutError falls into "except Exception"
ResponseForNoTimeoutBranch(outcome) ==
    IF outcome.kind = "return" THEN Response(200, outcome.value)
    ELSE Response(500, [success |-> FALSE,
                        error |-> IF outcome.kind = "cancel" THEN "" ELSE outcome.value.error])

\* the three ways out of wait_for in handle_execute
ResponseFor(outcome) ==
    IF outcome.kind = "return" THEN Response(200, outcome.value)
    ELSE IF outcome.kind = "cancel"
         THEN Response(200, [success |-> FALSE, error |-> DeadlineError])
         ELSE Response(500, [success |-> FALSE, error |-> outcome.value.error])

\* ----------------------------------------------------------------- engine
TextBlock(t) == [type |-> "text", text |-> t, name |-> ""]
ToolBlock(n) == [type |-> "tool", text |-> "", name |-> n]

\* the messages the engine can stream: each is the list of its blocks, empty
\* for a message without content
Messages ==
    { <<>>,
      <<TextBlock("4")>>,
      <<ToolBlock("Write")>>,
      <<TextBlock("draft"), ToolBlock("Bash"), TextBlock("done")>> }

\* (mutant) the text blocks are strung together
RECURSIVE FoldBlocksConcat(_, _)
FoldBlocksConcat(final, blocks) ==
    IF blocks = <<>> THEN final
    ELSE FoldBlocksConcat(IF Head(blocks).type = "text" THEN final \o Head(blocks).text
                          ELSE final,
                          Tail(blocks))

\* the loop over the blocks of one message
RECURSIVE FoldBlocks(_, _)
FoldBlocks(final, blocks) ==
    IF blocks = <<>> THEN final
    ELSE FoldBlocks(IF Head(blocks).type = "text" THEN Head(blocks).text ELSE final,
                    Tail(blocks))

\* the files the engine can write, relative to its working directory
RelFiles == { <<"report.csv">>, <<"chart.png">>, <<".cache">> }

\* ------------------------------------------------------------- artifacts
NonArtifactNames == {"__pycache__", ".pyc", ".pyo"}

\* list_workspace_files: the files under the workspace, without those that
\* have a dot-prefixed part anywhere in item.parts
ListWorkspaceFiles(ws, ff) ==
    {f \in ff : /\ IsStrictDescendant(f, ws)
                /\ ~(\E i \in 1..Len(f) : StartsWithDot(f[i]))
                /\ f[Len(f)] \notin NonArtifactNames}

\* the orders rglob can produce the files in
Orders(S) ==
    {s \in [1..Cardinality(S) -> S] : \A i, j \in 1..Cardinality(S) : s[i] = s[j] => i = j}

\* {"filename": Path(filepath).name, "url": result.get("url", "")}
Artifact(f) == [filename |-> f[Len(f)], url |-> "url"]

\* (mutant) the artifact is recorded before the upload is known to have worked
UploadResultAlways(arts, f, ok) == Append(arts, Artifact(f))

\* one more file has been tried: artifacts grows by the files that went through
UploadResult(arts, f, ok) == IF ok THEN Append(arts, Artifact(f)) ELSE arts

\* upload_to_file_handler raises at once when the file is gone, and the loop
\* goes on to the next file without suspending
RECURSIVE SkipMissing(_, _, _)
SkipMissing(fl, outs, ff) ==
    IF Len(outs) < Len(fl) /\ fl[Len(outs) + 1] \notin ff
    THEN SkipMissing(fl, Append(outs, FALSE), ff)
    ELSE outs

\* --------------------------------------------------------------- cleanup
\* (mutant) the working directory is restored, the workspace is left behind
CleanupStateKeep(d, ff, c, orig, ws, rmtreeOk) ==
    [cwd |-> IF orig # None /\ orig[1] \in d THEN orig[1] ELSE c,
     dirs |-> d, files |-> ff]

\* (mutant) the finally block with its two steps swapped: the workspace is
\* deleted first, the working directory restored after that
CleanupStateDeleteFirst(d, ff, c, orig, ws, rmtreeOk) ==
    LET deleted == ws \in d /\ rmtreeOk
        left == IF deleted THEN Rmtree(d, ws) ELSE d
        restored == orig # None /\ orig[1] \in left
    IN  [cwd |-> IF restored THEN orig[1] ELSE c,
         dirs |-> left,
         files |-> IF deleted THEN Rmtree(ff, ws) ELSE ff]

\* the finally block of execute_task: os.chdir(original_cwd) and then
\* rmtree(workspace) if it exists, each with its failure swallowed
CleanupState(d, ff, c, orig, ws, rmtreeOk) ==
    LET restored == orig # None /\ orig[1] \in d
        deleted == ws \in d /\ rmtreeOk
    IN  [cwd |-> IF restored THEN orig[1] ELSE c,
         dirs |-> IF deleted THEN Rmtree(d, ws) ELSE d,
         files |-> IF deleted THEN Rmtree(ff, ws) ELSE ff]

\* ------------------------------------------------------------------ state
VARIABLES
    pc,              \* where each request is
    req,             \* the taskId each request carries
    sem,             \* value of _semaphore
    waiters,         \* requests blocked on the semaphore, oldest first
    dirs,            \* the directories that exist
    fsfiles,         \* the regular files that exist
    cwd,             \* the working directory of the process
    now,             \* datetime.now(), in milliseconds
    budget,          \* what the environment may still do in this run
    task_id,         \* execute_task's local of that name after line 26
    workspace,       \* execute_task's local of that name, None before line 27
    original_cwd,    \* execute_task's local of that name, None while unbound
    start_time,      \* execute_task's local of that name
    stream,          \* the messages query() has yielded to _run_claude so far
    final_response,  \* _run_claude's local of that name
    files,           \* _upload_artifacts' local of that name
    outcomes,        \* per enumerated file so far: was it uploaded
    artifacts,       \* _upload_artifacts' local of that name
    exec,            \* how execute_task ended
    sent             \* the last response sent, None before the first

locals == <<task_id, workspace, original_cwd, start_time, stream, final_response,
            files, outcomes, artifacts>>
vars == <<pc, req, sem, waiters, dirs, fsfiles, cwd, now, budget, locals, exec, sent>>

\* what the environment does in one run is bounded in one of these ways:
\* more requests than slots, around an engine that says and writes nothing
ServiceWorkload ==
    [arrivals |-> NumRequests, kinds |-> {"ok"},
     taskIds |-> {StrId(FALSE, <<"a">>), StrId(FALSE, <<"b">>)},
     messages |-> 0, writes |-> 0, faults |-> 0, rmtree |-> 0, ticks |-> 0]

\* more requests than slots, all of them for the same task id
QueueWorkload ==
    [arrivals |-> NumRequests, kinds |-> {"ok"}, taskIds |-> {StrId(FALSE, <<"a">>)},
     messages |-> 0, writes |-> 0, faults |-> 0, rmtree |-> 0, ticks |-> 0]

\* as many requests as slots, each of which can have a task id of its own
OverlapWorkload ==
    [arrivals |-> MAX_CONCURRENT_TASKS, kinds |-> {"ok"},
     taskIds |-> {StrId(FALSE, <<"a">>), StrId(FALSE, <<"b">>), StrId(FALSE, <<"c">>)},
     messages |-> 0, writes |-> 0, faults |-> 0, rmtree |-> 0, ticks |-> 0]

\* two requests, with or without a task id, while the clock runs and the
\* engine writes files
PairWorkload ==
    [arrivals |-> 2, kinds |-> {"ok"}, taskIds |-> {Absent, StrId(FALSE, <<"a">>)},
     messages |-> 0, writes |-> MaxWrites, faults |-> 0, rmtree |-> 0,
     ticks |-> MaxClock]

\* one request of any kind, around an engine that streams messages, writes
\* files and fails, uploads that fail and a filesystem that fails
PipelineWorkload ==
    [arrivals |-> 1, kinds |-> RequestKinds, taskIds |-> ClientTaskIds,
     messages |-> MaxEngineMessages, writes |-> MaxWrites, faults |-> MaxFaults,
     rmtree |-> MaxRmtreeFailures, ticks |-> MaxClock]

\* one well-formed request, around an engine that streams one message and
\* writes one file, with one failure and one tick of the clock
SingleWorkload ==
    [arrivals |-> 1, kinds |-> {"ok"}, taskIds |-> {StrId(FALSE, <<"a">>)},
     messages |-> 1, writes |-> 1, faults |-> 1, rmtree |-> 0, ticks |-> 1]

Workloads ==
    {ServiceWorkload, QueueWorkload, OverlapWorkload, PairWorkload, PipelineWorkload,
     SingleWorkload}

NoLocals(f, r) == [f EXCEPT ![r] = <<>>]

Init ==
    /\ pc = [r \in Requests |-> "idle"]
    /\ req = [r \in Requests |-> Absent]
    /\ sem = MAX_CONCURRENT_TASKS
    /\ waiters = <<>>
    /\ dirs = {<<>>, InitialCwd, SubSeq(WORKSPACE_BASE, 1, 1)}
    /\ fsfiles = {}
    /\ cwd = InitialCwd
    /\ now = 0
    /\ budget \in Workloads
    /\ task_id = [r \in Requests |-> None]
    /\ workspace = [r \in Requests |-> None]
    /\ original_cwd = [r \in Requests |-> None]
    /\ start_time = [r \in Requests |-> 0]
    /\ stream = [r \in Requests |-> <<>>]
    /\ final_response = [r \in Requests |-> ""]
    /\ files = [r \in Requests |-> <<>>]
    /\ outcomes = [r \in Requests |-> <<>>]
    /\ artifacts = [r \in Requests |-> <<>>]
    /\ exec = [r \in Requests |-> NotFinished]
    /\ sent = None

\* ---------------------------------------------------------------- actions

\* the environment fails n more operations in this run, and m more deletions
Fail(n, m) ==
    /\ budget.faults >= n
    /\ budget.rmtree >= m
    /\ budget' = [budget EXCEPT !.faults = @ - n, !.rmtree = @ - m]

Cost(ok) == IF ok THEN 0 ELSE 1

\* (mutant) a finally block without its two try/except: a cleanup step that
\* fails raises, and the exception replaces what execute_task was returning
FinishCleanupRaises(r, outcome, d, orig, ws, rmtreeOk, failed) ==
    LET c == CleanupState(d, fsfiles, cwd, orig, ws, rmtreeOk)
    IN  /\ rmtreeOk \/ ws \in d
        /\ Fail(failed, Cost(rmtreeOk))
        /\ pc' = [pc EXCEPT ![r] = "finished"]
        /\ exec' = [exec EXCEPT ![r] =
                       IF rmtreeOk /\ orig # None /\ orig[1] \in d
                       THEN outcome ELSE Raised("cleanup failed")]
        /\ dirs' = c.dirs
        /\ fsfiles' = c.files
        /\ cwd' = c.cwd

\* execute_task leaves through its finally block: the outcome is fixed, the
\* working directory is restored and the workspace deleted, and the
\* coroutine is over; handle_execute resumes in a later step
Finish(r, outcome, d, orig, ws, rmtreeOk, failed) ==
    LET c == CleanupState(d, fsfiles, cwd, orig, ws, rmtreeOk)
    IN  /\ rmtreeOk \/ ws \in d
        /\ Fail(failed, Cost(rmtreeOk))
        /\ pc' = [pc EXCEPT ![r] = "finished"]
        /\ exec' = [exec EXCEPT ![r] = outcome]
        /\ dirs' = c.dirs
        /\ fsfiles' = c.files
        /\ cwd' = c.cwd

\* a request arrives and handle_execute runs up to the semaphore; requests
\* are numbered in their order of arrival
Arrive(r, kind, id) ==
    /\ pc[r] = "idle"
    /\ \A q \in Requests : q < r => pc[q] # "idle"
    /\ budget.arrivals > 0
    /\ kind \in budget.kinds
    /\ id \in budget.taskIds
    /\ IF kind = "ok"
       THEN /\ pc' = [pc EXCEPT ![r] = "waiting"]
            /\ req' = [req EXCEPT ![r] = id]
            /\ waiters' = Append(waiters, r)
            /\ UNCHANGED sent
       ELSE /\ id = Absent
            /\ pc' = [pc EXCEPT ![r] = "done"]
            /\ sent' = Some(IF kind = "badjson" THEN BadRequest("Invalid JSON body")
                            ELSE IF kind = "nonobject" THEN UnhandledError
                            ELSE IF kind = "notask" THEN BadRequest("Missing 'task' field")
                            ELSE BadRequest("Missing 'contextId' field"))
            /\ UNCHANGED <<req, waiters>>
    /\ budget' = [budget EXCEPT !.arrivals = @ - 1]
    /\ UNCHANGED <<sem, dirs, fsfiles, cwd, now, locals, exec>>

\* "async with _semaphore" lets the oldest waiting request in
Acquire(r) ==
    /\ pc[r] = "waiting"
    /\ waiters # <<>> /\ Head(waiters) = r
    /\ SemCanAcquire(sem)
    /\ sem' = SemAcquire(sem)
    /\ waiters' = Tail(waiters)
    /\ pc' = [pc EXCEPT ![r] = "admitted"]
    /\ UNCHANGED <<req, dirs, fsfiles, cwd, now, budget, locals, exec, sent>>

\* execute_task from its first line to the first suspension in _run_claude
Setup(r, mkdirOk, rmtreeOk) ==
    /\ pc[r] = "admitted"
    /\ task_id' = [task_id EXCEPT ![r] = Some(TaskIdOf(req[r], now))]
    /\ LET id == TaskIdOf(req[r], now)
       IN  IF id.kind = "nonstring"
           THEN \* Path(WORKSPACE_BASE) / task_id raises before the try
                /\ mkdirOk /\ rmtreeOk
                /\ pc' = [pc EXCEPT ![r] = "finished"]
                /\ exec' = [exec EXCEPT ![r] = Raised(JoinTypeError)]
                /\ UNCHANGED <<dirs, fsfiles, cwd, budget, workspace, original_cwd,
                               start_time>>
           ELSE LET ws == WorkspaceOf(id)
                    made == Mkdir(dirs, ws)
                IN  /\ workspace' = [workspace EXCEPT ![r] = Some(ws)]
                    /\ start_time' = [start_time EXCEPT ![r] = now]
                    /\ IF ~mkdirOk
                       THEN /\ Finish(r, Returned(FailureEnvelope(MkdirError, DurationMs(now, now))),
                                      dirs, None, ws, rmtreeOk, 1)
                            /\ UNCHANGED original_cwd
                       ELSE IF cwd \notin made
                       THEN \* os.getcwd() raises: the working directory is gone
                            /\ Finish(r, Returned(FailureEnvelope(GetcwdError, DurationMs(now, now))),
                                      made, None, ws, rmtreeOk, 0)
                            /\ UNCHANGED original_cwd
                       ELSE /\ rmtreeOk
                            /\ original_cwd' = [original_cwd EXCEPT ![r] = Some(cwd)]
                            /\ cwd' = ws
                            /\ dirs' = made
                            /\ pc' = [pc EXCEPT ![r] = "running"]
                            /\ UNCHANGED <<fsfiles, exec, budget>>
    /\ UNCHANGED <<req, sem, waiters, now, stream, final_response, files,
                   outcomes, artifacts, sent>>

\* the engine streams one message
EngineMessage(r, msg) ==
    /\ pc[r] = "running"
    /\ budget.messages > 0
    /\ budget' = [budget EXCEPT !.messages = @ - 1]
    /\ stream' = [stream EXCEPT ![r] = Append(@, msg)]
    /\ final_response' = [final_response EXCEPT ![r] = FoldBlocks(@, msg)]
    /\ UNCHANGED <<pc, req, sem, waiters, dirs, fsfiles, cwd, now, task_id, workspace,
                   original_cwd, start_time, files, outcomes, artifacts, exec, sent>>

\* the engine writes a file into its working directory
EngineWrite(r, rel) ==
    /\ pc[r] = "running"
    /\ budget.writes > 0
    /\ workspace[r][1] \in dirs
    /\ workspace[r][1] \o rel \notin fsfiles
    /\ budget' = [budget EXCEPT !.writes = @ - 1]
    /\ fsfiles' = fsfiles \cup {workspace[r][1] \o rel}
    /\ UNCHANGED <<pc, req, sem, waiters, dirs, cwd, now, locals, exec, sent>>

\* the engine run raises: one of the two except branches of execute_task
EngineFail(r, exc, rmtreeOk) ==
    /\ pc[r] = "running"
    /\ Finish(r, Returned(FailureEnvelope(
                     IF exc = "TimeoutError" THEN TimedOutError ELSE EngineError,
                     DurationMs(start_time[r], now))),
              dirs, original_cwd[r], workspace[r][1], rmtreeOk, 1)
    /\ UNCHANGED <<req, sem, waiters, now, locals, sent>>

\* the stream ends: _run_claude returns and _upload_artifacts runs up to
\* its first upload, or to the end when there is nothing to upload
EngineDone(r, enumOk, order, rmtreeOk) ==
    /\ pc[r] = "running"
    /\ LET ws == workspace[r][1]
           found == IF ws \in dirs THEN ListWorkspaceFiles(ws, fsfiles) ELSE {}
       IN  /\ order \in Orders(found)
           /\ IF ~enumOk
              THEN /\ ws \in dirs
                   /\ Finish(r, Returned(FailureEnvelope(EnumerationError,
                                                         DurationMs(start_time[r], now))),
                             dirs, original_cwd[r], ws, rmtreeOk, 1)
                   /\ UNCHANGED <<files, outcomes>>
              ELSE LET outs == SkipMissing(order, <<>>, fsfiles)
                   IN  /\ files' = [files EXCEPT ![r] = order]
                       /\ outcomes' = [outcomes EXCEPT ![r] = outs]
                       /\ IF Len(outs) = Len(order)
                          THEN Finish(r, Returned(SuccessEnvelope(final_response[r], artifacts[r],
                                                                  DurationMs(start_time[r], now))),
                                      dirs, original_cwd[r], ws, rmtreeOk, 0)
                          ELSE /\ rmtreeOk
                               /\ pc' = [pc EXCEPT ![r] = "uploading"]
                               /\ UNCHANGED <<dirs, fsfiles, cwd, exec, budget>>
    /\ UNCHANGED <<req, sem, waiters, now, task_id, workspace, original_cwd,
                   start_time, stream, final_response, artifacts, sent>>

\* the upload in flight ends, with a URL or with an exception, and the loop
\* runs on to the next upload or to the end of execute_task
UploadDone(r, ok, rmtreeOk) ==
    /\ pc[r] = "uploading"
    /\ LET i == Len(outcomes[r]) + 1
           arts == UploadResult(artifacts[r], files[r][i], ok)
           outs == SkipMissing(files[r], Append(outcomes[r], ok), fsfiles)
       IN  /\ artifacts' = [artifacts EXCEPT ![r] = arts]
           /\ outcomes' = [outcomes EXCEPT ![r] = outs]
           /\ IF Len(outs) = Len(files[r])
              THEN Finish(r, Returned(SuccessEnvelope(final_response[r], arts,
                                                      DurationMs(start_time[r], now))),
                          dirs, original_cwd[r], workspace[r][1], rmtreeOk, Cost(ok))
              ELSE /\ rmtreeOk
                   /\ Fail(Cost(ok), 0)
                   /\ UNCHANGED <<pc, dirs, fsfiles, cwd, exec>>
    /\ UNCHANGED <<req, sem, waiters, now, task_id, workspace, original_cwd,
                   start_time, stream, final_response, files, sent>>

\* the deadline of wait_for passes while execute_task is suspended: the
\* coroutine is cancelled, no except branch takes CancelledError, the
\* finally block runs
Timeout(r, rmtreeOk) ==
    /\ pc[r] \in {"running", "uploading"}
    /\ Finish(r, Cancelled, dirs, original_cwd[r], workspace[r][1], rmtreeOk, 0)
    /\ UNCHANGED <<req, sem, waiters, now, locals, sent>>

\* handle_execute resumes after wait_for, answers, and leaves the
\* "async with" block; the request and its coroutine are gone
Respond(r) ==
    /\ pc[r] = "finished"
    /\ sent' = Some(ResponseFor(exec[r]))
    /\ sem' = SemRelease(sem)
    /\ pc' = [pc EXCEPT ![r] = "done"]
    /\ req' = [req EXCEPT ![r] = Absent]
    /\ exec' = [exec EXCEPT ![r] = NotFinished]
    /\ task_id' = NoLocals(task_id, r)
    /\ workspace' = NoLocals(workspace, r)
    /\ original_cwd' = NoLocals(original_cwd, r)
    /\ start_time' = [start_time EXCEPT ![r] = 0]
    /\ stream' = NoLocals(stream, r)
    /\ final_response' = [final_response EXCEPT ![r] = ""]
    /\ files' = NoLocals(files, r)
    /\ outcomes' = NoLocals(outcomes, r)
    /\ artifacts' = NoLocals(artifacts, r)
    /\ UNCHANGED <<waiters, dirs, fsfiles, cwd, now, budget>>

\* a millisecond passes
Tick ==
    /\ budget.ticks > 0
    /\ budget' = [budget EXCEPT !.ticks = @ - 1]
    /\ now' = now + 1
    /\ UNCHANGED <<pc, req, sem, waiters, dirs, fsfiles, cwd, locals, exec, sent>>

Next ==
    \/ \E r \in Requests, kind \in RequestKinds,
          id \in ClientTaskIds : Arrive(r, kind, id)
    \/ \E r \in Requests : Acquire(r)
    \/ \E r \in Requests, mkdirOk \in BOOLEAN, rmtreeOk \in BOOLEAN :
          Setup(r, mkdirOk, rmtreeOk)
    \/ \E r \in Requests, msg \in Messages : EngineMessage(r, msg)
    \/ \E r \in Requests, rel \in RelFiles : EngineWrite(r, rel)
    \/ \E r \in Requests, exc \in {"TimeoutError", "Exception"}, rmtreeOk \in BOOLEAN :
          EngineFail(r, exc, rmtreeOk)
    \/ \E r \in Requests, enumOk \in BOOLEAN, rmtreeOk \in BOOLEAN :
          \E order \in Orders(IF workspace[r] # None /\ workspace[r][1] \in dirs
                              THEN ListWorkspaceFiles(workspace[r][1], fsfiles)
                              ELSE {}) :
             EngineDone(r, enumOk, order, rmtreeOk)
    \/ \E r \in Requests, ok \in BOOLEAN, rmtreeOk \in BOOLEAN : UploadDone(r, ok, rmtreeOk)
    \/ \E r \in Requests, rmtreeOk \in BOOLEAN : Timeout(r, rmtreeOk)
    \/ \E r \in Requests : Respond(r)
    \/ Tick

Spec == Init /\ [][Next]_vars

\* the runs of the queueing workload and of the single well-formed request
FairInit == Init /\ budget \in {QueueWorkload, SingleWorkload}

\* the event loop runs every coroutine that is ready: a waiter woken by a
\* release, execute_task after admission, handle_execute after wait_for;
\* and wait_for cuts off at its deadline every execution that is still going
FairSpec ==
    /\ FairInit
    /\ [][Next]_vars
    /\ \A r \in Requests :
          /\ WF_vars(Acquire(r))
          /\ WF_vars(\E mkdirOk \in BOOLEAN, rmtreeOk \in BOOLEAN : Setup(r, mkdirOk, rmtreeOk))
          /\ WF_vars(\E rmtreeOk \in BOOLEAN : Timeout(r, rmtreeOk))
          /\ WF_vars(Respond(r))

\* ------------------------------------------------------------ properties

\* the request is inside execute_task, suspended
InExecuteTask(r) == pc[r] \in {"running", "uploading"}

\* the request holds a slot of the semaphore
HoldsSlot(r) == pc[r] \in {"admitted", "running", "uploading", "finished"}

\* execute_task ends in this step
Completes(r) == pc[r] \in {"admitted", "running", "uploading"} /\ pc'[r] = "finished"

\* handle_execute answers in this step
Answers(r) == pc[r] = "finished" /\ pc'[r] = "done"

\* the deletion of the workspace failed in this step
RmtreeFailed == budget'.rmtree < budget.rmtree

ResultPopulated(body) == "result" \in DOMAIN body /\ body.result # None
ErrorPopulated(body) == "error" \in DOMAIN body

\* the error strings of the model that contain "timed out"
TimedOutErrors == {TimedOutError, DeadlineError}

\* C1: at most MAX_CONCURRENT_TASKS requests are inside execute_task
C1_AtMostMaxInExecuteTask ==
    Cardinality({r \in Requests : InExecuteTask(r)}) <= MAX_CONCURRENT_TASKS

\* all slots are taken by running tasks and a further request is held back
C1_Witness ==
    /\ Cardinality({r \in Requests : InExecuteTask(r)}) = MAX_CONCURRENT_TASKS
    /\ \E r \in Requests : pc[r] = "waiting"

\* C2: the free slots and the slots held add up to MAX_CONCURRENT_TASKS, so
\* every admitted request gives its slot back once, and with no request
\* holding a slot all of them are free
C2_SlotReleasedExactlyOnce ==
    /\ sem + Cardinality({r \in Requests : HoldsSlot(r)}) = MAX_CONCURRENT_TASKS
    /\ (\A r \in Requests : ~HoldsSlot(r)) => sem = MAX_CONCURRENT_TASKS

\* a request whose execute_task raised has been answered, no request holds a
\* slot and all slots are free
C2_Witness ==
    /\ \E r \in Requests : pc[r] = "done"
    /\ \A r \in Requests : ~HoldsSlot(r)
    /\ sent # None /\ sent[1].status = 500
    /\ sent[1].body = [success |-> FALSE, error |-> JoinTypeError]
    /\ sem = MAX_CONCURRENT_TASKS

\* C3 as claimed: when execute_task ends, its workspace does not exist
C3_Original ==
    [][\A r \in Requests :
          Completes(r) /\ workspace'[r] # None => workspace'[r][1] \notin dirs']_vars

\* C3: when execute_task ends, on any outcome, its workspace does not exist
\* unless the deletion itself failed
C3_WorkspaceGoneUnlessRmtreeFailed ==
    [][\A r \in Requests :
          Completes(r) /\ workspace'[r] # None
              => workspace'[r][1] \notin dirs' \/ RmtreeFailed]_vars

\* a task that was cut off by the deadline has ended and its workspace is gone
C3_Witness ==
    \E r \in Requests :
        /\ pc[r] = "finished" /\ exec[r].kind = "cancel"
        /\ workspace[r][1] \notin dirs

\* what the caller gets on a deadline, and the slot
DeadlineAnswer(r) ==
    Answers(r) /\ exec[r].kind = "cancel"
        => /\ sent' # None
           /\ sent'[1].body.success = FALSE
           /\ sent'[1].body.error \in TimedOutErrors
           /\ sem' = sem + 1

\* C4 as claimed: on a deadline the workspace is removed, the answer is a
\* failure with a "timed out" error and the slot is released
C4_Original ==
    [][\A r \in Requests :
          /\ InExecuteTask(r) /\ exec'[r].kind = "cancel"
                => workspace[r][1] \notin dirs'
          /\ DeadlineAnswer(r)]_vars

\* C4: on a deadline the workspace is removed unless its deletion failed, the
\* answer is a failure with a "timed out" error and the slot is released
C4_DeadlineAnswered ==
    [][\A r \in Requests :
          /\ InExecuteTask(r) /\ exec'[r].kind = "cancel"
                => workspace[r][1] \notin dirs' \/ RmtreeFailed
          /\ DeadlineAnswer(r)]_vars

\* the answer to a deadline has been sent and every slot is free again
C4_Witness ==
    /\ sent # None /\ sent[1].status = 200
    /\ sent[1].body.success = FALSE /\ sent[1].body.error = DeadlineError
    /\ sem = MAX_CONCURRENT_TASKS
    /\ \E r \in Requests : pc[r] = "done"

\* C5 as claimed: the answer to a valid request has exactly one of result and
\* error populated and a duration_ms >= 0
C5_Original ==
    [][\A r \in Requests :
          Answers(r)
              => /\ ResultPopulated(sent'[1].body) # ErrorPopulated(sent'[1].body)
                 /\ "duration_ms" \in DOMAIN sent'[1].body
                 /\ sent'[1].body.duration_ms >= 0]_vars

\* C6 as claimed: two tasks inside execute_task never have the same workspace,
\* and the end of one task never deletes the workspace of another one
C6_Original ==
    [][\A r, s \in Requests :
          r # s =>
             /\ InExecuteTask(r)' /\ InExecuteTask(s)' => workspace'[r] # workspace'[s]
             /\ Completes(r) /\ InExecuteTask(s) /\ workspace[s][1] \in dirs
                   => workspace[s][1] \in dirs']_vars

\* C7 as claimed: the working directory a task recorded is never the workspace
\* of another task, and no step of one task changes the working directory
\* under another task that is inside execute_task
C7_Original ==
    [][\A r, s \in Requests :
          r # s =>
             /\ InExecuteTask(r)' /\ workspace'[s] # None
                   => original_cwd'[r] # workspace'[s]
             /\ pc'[r] # pc[r] /\ InExecuteTask(s) => cwd' = cwd]_vars

\* the artifacts of the files whose upload went through, in the order of fl
RECURSIVE UploadedOf(_, _)
UploadedOf(fl, outs) ==
    IF fl = <<>> \/ outs = <<>> THEN <<>>
    ELSE IF Head(outs)
         THEN <<Artifact(Head(fl))>> \o UploadedOf(Tail(fl), Tail(outs))
         ELSE UploadedOf(Tail(fl), Tail(outs))

C9_Original ==
    [][\A r \in Requests :
          /\ Answers(r)
          /\ \/ exec[r].kind = "raise"
             \/ exec[r].kind = "return" /\ ~exec[r].value.success
          => /\ sent'[1].status = 200
             /\ sent'[1].body.success = FALSE
             /\ "result" \in DOMAIN sent'[1].body /\ sent'[1].body.result = None
             /\ sent'[1].body.error = exec[r].value.error
             /\ "duration_ms" \in DOMAIN sent'[1].body]_vars

\* C10 as claimed: the workspace of every task is strictly below WORKSPACE_BASE
C10_Original ==
    \A r \in Requests :
        workspace[r] # None => IsStrictDescendant(workspace[r][1], WORKSPACE_BASE)

\* C11 as claimed: a request without task or contextId, or with a body that
\* is not JSON, is answered with status 400 and a failure envelope, and takes
\* no slot, makes no workspace and starts no execute_task
C11_Original ==
    [][\A r \in Requests :
          pc[r] = "idle" /\ pc'[r] = "done"
              => /\ sent'[1].status = 400
                 /\ sent'[1].body.success = FALSE
                 /\ ErrorPopulated(sent'[1].body)
                 /\ UNCHANGED <<sem, waiters, dirs, fsfiles, cwd, locals, exec>>]_vars

\* C12: under fair scheduling, with every execution ending by its deadline,
\* every request that waits for a slot is admitted and answered
C12_WaitingEventuallyAnswered ==
    \A r \in Requests : (pc[r] = "waiting") ~> (pc[r] = "done")

\* every slot is taken, the oldest waiting request is held back, and one of
\* the executions in its way has ended
C12_Witness ==
    /\ waiters # <<>> /\ pc[Head(waiters)] = "waiting"
    /\ ~SemCanAcquire(sem)
    /\ \E r \in Requests : pc[r] = "finished"

\* C13 as claimed: the task ids generated for requests that bring none are
\* pairwise distinct, also for requests of the same millisecond
C13_Original ==
    \A r, s \in Requests :
        /\ r # s
        /\ req[r] = Absent /\ task_id[r] # None
        /\ req[s] = Absent /\ task_id[s] # None
        => task_id[r] # task_id[s]

\* the files under ws that are not hidden: no part of their path below ws
\* starts with a dot, and their name is none of the excluded ones
NonHiddenUnder(ws, ff) ==
    {f \in ff : /\ IsStrictDescendant(f, ws)
                /\ ~(\E i \in (Len(ws) + 1)..Len(f) : StartsWithDot(f[i]))
                /\ f[Len(f)] \notin NonArtifactNames}

\* C14 as claimed: whatever the task id, the files enumerated at the end of
\* the engine run are the files under the workspace that are not hidden
C14_Original ==
    [][\A r \in Requests :
          /\ pc[r] = "running"
          /\ \/ pc'[r] = "uploading"
             \/ pc'[r] = "finished" /\ exec'[r].kind = "return" /\ exec'[r].value.success
          => {files'[r][i] : i \in 1..Len(files'[r])}
                = NonHiddenUnder(workspace[r][1], fsfiles)]_vars

\* the cleanup of r's execute_task runs in this step and one of its two
\* steps fails: original_cwd is unbound or gone, or the deletion fails
CleanupFails(r) ==
    /\ Completes(r) /\ workspace'[r] # None
    /\ \/ RmtreeFailed
       \/ original_cwd'[r] = None
       \/ original_cwd'[r][1] \notin dirs

\* C15: a cleanup that fails raises nothing, and execute_task hands over
\* what its try block had determined: the failure of setup, the failure of
\* the engine run or of the enumeration, the success with the result text
\* and the artifacts collected, or the cancellation by the deadline
C15_CleanupFailureKeepsEnvelope ==
    [][\A r \in Requests :
          CleanupFails(r)
              => /\ exec'[r].kind \in {"return", "cancel"}
                 /\ exec'[r].kind = "cancel" => InExecuteTask(r)
                 /\ exec'[r].kind = "return" =>
                       LET env == exec'[r].value
                           faulted == budget'.faults < budget.faults
                       IN  IF pc[r] = "admitted"
                           THEN ~env.success /\ env.error \in {MkdirError, GetcwdError}
                           ELSE IF pc[r] = "running" /\ faulted
                           THEN /\ ~env.success
                                /\ env.error \in {TimedOutError, EngineError, EnumerationError}
                           ELSE /\ env.success
                                /\ env.result = Some(final_response[r])
                                /\ env.artifacts = artifacts'[r]]_vars

\* the only request in flight has ended with success and its workspace is
\* still there: the deletion failed
C15_Witness ==
    \E r \in Requests :
        /\ pc[r] = "finished" /\ exec[r].kind = "return" /\ exec[r].value.success
        /\ workspace[r][1] \in dirs
        /\ \A s \in Requests : s # r => pc[s] \in {"idle", "done"}

\* the order of the steps of one task, as pairs of where it is before and
\* after a step that moves it: setup, engine run, uploads, cleanup, answer
StepOrder ==
    { <<"admitted", "running">>, <<"admitted", "finished">>,
      <<"running", "uploading">>, <<"running", "finished">>,
      <<"uploading", "finished">>, <<"finished", "done">> }

\* C16: a task moves through workspace creation, engine run, artifact
\* collection and cleanup in this order only: the engine starts in a
\* workspace that exists, engine messages come during the engine run only,
\* files are collected and uploaded only once the engine run is over, the
\* cleanup restores the working directory before it deletes the workspace,
\* and after cleanup the task does nothing; a task that ends early leaves
\* out the rest of the steps and goes to cleanup
C16_StepsInOrder ==
    [][\A r \in Requests :
          /\ HoldsSlot(r) /\ pc'[r] # pc[r] => <<pc[r], pc'[r]>> \in StepOrder
          /\ pc[r] = "admitted" /\ pc'[r] = "running"
                => workspace'[r][1] \in dirs' /\ cwd' = workspace'[r][1]
          /\ stream'[r] # stream[r] /\ pc'[r] # "done"
                => pc[r] = "running" /\ pc'[r] = "running"
          /\ <<files'[r], outcomes'[r], artifacts'[r]>> # <<files[r], outcomes[r], artifacts[r]>>
             /\ pc'[r] # "done"
                => /\ pc[r] \in {"running", "uploading"}
                   /\ pc'[r] \in {"uploading", "finished"}
          /\ Completes(r) /\ original_cwd[r] # None /\ original_cwd[r][1] \in dirs
                => cwd' = original_cwd[r][1]
          /\ pc[r] = "finished" /\ pc'[r] = "finished"
                => /\ exec'[r] = exec[r]
                   /\ <<stream'[r], final_response'[r], artifacts'[r]>>
                         = <<stream[r], final_response[r], artifacts[r]>>]_vars

\* a task has been through every step: the engine spoke, a file was uploaded,
\* the working directory is the recorded one again and the workspace is gone
C16_Witness ==
    \E r \in Requests :
        /\ pc[r] = "finished" /\ exec[r].kind = "return" /\ exec[r].value.success
        /\ stream[r] # <<>> /\ artifacts[r] # <<>>
        /\ cwd = original_cwd[r][1]
        /\ workspace[r][1] \notin dirs

\* the blocks of a stream of messages, in the order they were streamed
RECURSIVE BlocksOf(_)
BlocksOf(msgs) == IF msgs = <<>> THEN <<>> ELSE Head(msgs) \o BlocksOf(Tail(msgs))

\* the text of the last text block among the blocks, "" when there is none
RECURSIVE LastText(_)
LastText(blocks) ==
    IF blocks = <<>> THEN ""
    ELSE IF blocks[Len(blocks)].type = "text" THEN blocks[Len(blocks)].text
         ELSE LastText(SubSeq(blocks, 1, Len(blocks) - 1))

\* C17: during and after the engine run the result is the text of the last
\* text block streamed so far, "" when there was none, whatever tool blocks
\* and empty messages came with it; and a task whose setup, engine run and
\* enumeration did not fail returns success with that text as result
C17_ResultIsLastText ==
    [][\A r \in Requests :
          /\ InExecuteTask(r)' => final_response'[r] = LastText(BlocksOf(stream'[r]))
          /\ Completes(r) /\ exec'[r].kind = "return"
                => IF exec'[r].value.success
                   THEN exec'[r].value.result = Some(LastText(BlocksOf(stream[r])))
                   ELSE pc[r] = "admitted" \/ budget'.faults < budget.faults]_vars

\* the engine streamed two text blocks around a tool block and then a tool
\* block alone, and the task returned the second text
C17_Witness ==
    \E r \in Requests :
        /\ pc[r] = "finished" /\ exec[r].kind = "return" /\ exec[r].value.success
        /\ stream[r] = << <<TextBlock("draft"), ToolBlock("Bash"), TextBlock("done")>>,
                          <<ToolBlock("Write")>> >>
        /\ exec[r].value.result = Some("done")

\* C18 as claimed: while no task is inside execute_task, the working
\* directory of the process is the one it started in, and it exists
C18_Original ==
    (\A r \in Requests : ~InExecuteTask(r)) => cwd = InitialCwd /\ cwd \in dirs

\* C19 as claimed: no task fails because of what other tasks did; in
\* particular no task whose workspace could be made fails in setup at the
\* lookup of the working directory
C19_Original ==
    \A r \in Requests :
        pc[r] = "finished" /\ exec[r].kind = "return" /\ ~exec[r].value.success
            => exec[r].value.error # GetcwdError

\* the finally block of r's execute_task has run: execute_task is over and
\* had got into its try block, which starts after the workspace path is made
CleanupHasRun(r) == pc[r] = "finished" /\ workspace[r] # None

\* C20 as claimed: a request that holds a slot is answered, and gives the
\* slot back, only after the cleanup of its execute_task has run; and an
\* execution cut off by the deadline takes no further engine or upload step
C20_Original ==
    [][\A r \in Requests :
          /\ HoldsSlot(r) /\ pc'[r] = "done" => CleanupHasRun(r)
          /\ sem' > sem \/ sent' # sent
                => \E q \in Requests : pc[q] \in {"idle", "finished"} /\ pc'[q] = "done"
          /\ exec[r].kind = "cancel" /\ pc'[r] # "done"
                => <<stream'[r], final_response'[r], files'[r], outcomes'[r], artifacts'[r]>>
                      = <<stream[r], final_response[r], files[r], outcomes[r], artifacts[r]>>]_vars

====
